---- MODULE Spec2Model ----
(***************************************************************************)
(* Moody surface plate analysis (moody.c): the worksheet pipeline of main   *)
(* as a state machine.  One action per call that main makes, in main's     *)
(* order.  The C floats are modelled as exact rationals <<num, den>>.      *)
(***************************************************************************)
EXTENDS Integers, Sequences, FiniteSets, TLC

(***************************************************************************)
(* Bounds of the model.                                                    *)
(***************************************************************************)
\* Largest number of readings in an input file of the worksheet runs.
MaxN == 4
\* Largest amplitude selector of the input readings of the worksheet runs.
MaxK == 2
\* Largest number of readings in an input file of the single-profile runs.
MaxProfile == 5
\* Largest reading in an input file of the single-profile runs.
MaxReading == 1
\* Largest number of data lines in an input file of the reader runs.
MaxLines == 127

(***************************************************************************)
(* Program constants.                                                      *)
(***************************************************************************)
MAX_STATIONS == 128

NW_SE == 0
NE_SW == 1
NE_NW == 2
NE_SE == 3
SE_SW == 4
NW_SW == 5
E_W == 6
N_S == 7

Sheets == 0..7

(***************************************************************************)
(* Exact rational arithmetic standing for the float operations.            *)
(***************************************************************************)
Abs(n) == IF n < 0 THEN -n ELSE n

RECURSIVE GCD(_, _)
GCD(a, b) == IF b = 0 THEN a ELSE GCD(b, a % b)

\* The rational n/d in lowest terms with a positive denominator.
Rat(n, d) ==
  LET g == GCD(Abs(n), Abs(d))
      s == IF d < 0 THEN -1 ELSE 1
  IN  <<s * (n \div g), s * (d \div g)>>

Zero == <<0, 1>>
FromInt(n) == <<n, 1>>

RAdd(x, y) ==
  LET g == GCD(x[2], y[2])
  IN  Rat(x[1] * (y[2] \div g) + y[1] * (x[2] \div g), x[2] * (y[2] \div g))

RNeg(x) == <<-x[1], x[2]>>
RSub(x, y) == RAdd(x, RNeg(y))

RMul(x, y) ==
  LET g1 == GCD(Abs(x[1]), y[2])
      g2 == GCD(Abs(y[1]), x[2])
  IN  Rat((x[1] \div g1) * (y[1] \div g2), (x[2] \div g2) * (y[2] \div g1))

\* x / n for an integer n > 0.
RDivInt(x, n) == RMul(x, <<1, n>>)
RHalf(x) == RMul(<<1, 2>>, x)
RAbs(x) == <<Abs(x[1]), x[2]>>

\* x < y, the denominators being positive
RLess(x, y) == x[1] * y[2] < y[1] * x[2]

(***************************************************************************)
(* State.                                                                  *)
(***************************************************************************)
VARIABLES
  config,        \* Config.txt: <<flag, spacing>>
  files,         \* the eight data files: sheet -> sequence of lines
  ws,            \* float ws[8][9][MAX_STATIONS]: the cells written so far
  num_dat,       \* int num_dat[8]
  metric,        \* int metric
  foot_spacing,  \* float foot_spacing
  lowest,        \* main's local
  highest,       \* main's local
  pc,            \* position in main: index of the next call
  exited,        \* "no", "failure" (exit(EXIT_FAILURE)) or "success" (return 0)
  stdout,        \* diagnostics printed so far
  low_high_calls, \* number of calls of return_low_and_high_point so far
  clean          \* every call so far computed from written cells only

vars == <<config, files, ws, num_dat, metric, foot_spacing, lowest, highest,
          pc, exited, stdout, low_high_calls, clean>>

(***************************************************************************)
(* The worksheet array.  ws has static storage, so a cell that was never   *)
(* written reads 0.0; the model keeps the written cells only.              *)
(***************************************************************************)
Cell(w, i, c, j) == IF <<i, c, j>> \in DOMAIN w THEN w[<<i, c, j>>] ELSE Zero

\* ws[i][c][j] = v
Put(w, i, c, j, v) ==
  IF <<i, c, j>> \in DOMAIN w
    THEN [w EXCEPT ![<<i, c, j>>] = v]
    ELSE (<<i, c, j>> :> v) @@ w

Written(w, cells) == cells \subseteq DOMAIN w

\* the cells of column c of sheet i at the stations js
Col(i, c, js) == {<<i, c, j>> : j \in js}

(***************************************************************************)
(* Input: the configuration file and the eight data files.                 *)
(***************************************************************************)
Data(v) == [kind |-> "data", val |-> v]
\* a blank line or a comment line
Skip == [kind |-> "skip", val |-> 0]
\* a line that sscanf cannot parse as one angle
Bad == [kind |-> "bad", val |-> 0]

\* Reading j (1..n) of sheet i in the data set of amplitude k.
Reading(i, n, k, j) == k * (((i + 2) * j * j + i * j) % 5)

\* The data file of sheet i: n readings; odd sheets start with a comment.
DataFile(i, n, k) ==
  (IF i % 2 = 1 THEN <<Skip>> ELSE <<>>) \o [j \in 1..n |-> Data(Reading(i, n, k, j))]

\* Station counts: opposite perimeter lines agree, and so do the center lines.
Shapes ==
  {s \in [Sheets -> 3..MaxN] :
     s[NE_NW] = s[SE_SW] /\ s[NE_SE] = s[NW_SW] /\ s[E_W] = s[N_S]}

Datasets == {[i \in Sheets |-> DataFile(i, s[i], k)] : s \in Shapes, k \in 0..MaxK}

\* Single-profile runs: every sheet holds the same n readings, each in
\* 0..MaxReading.
Profiles == UNION {[1..n -> {Data(v) : v \in 0..MaxReading}] : n \in 3..MaxProfile}

\* Reader runs: one sheet holds n data lines, plain, with blank and comment
\* lines around them, or followed by a line that does not parse.
LongFile(n, kind) ==
  LET data == [j \in 1..n |-> Data(j % 3)]
  IN  IF kind = "plain" THEN data
      ELSE IF kind = "comments" THEN <<Skip>> \o data \o <<Skip, Skip>>
      ELSE data \o <<Bad>>

\* "M 66.0" and "I 4.0" are the examples the program prints; "X" is malformed.
Configs == {<<"M", 66>>, <<"I", 4>>, <<"X", 0>>}

(***************************************************************************)
(* main: the calls it makes, in order.                                     *)
(***************************************************************************)
Call(op, arg) == [op |-> op, arg |-> arg]
Calls(op, from, to) == [k \in 1..(to - from + 1) |-> Call(op, from + k - 1)]

\* Main with the center lines shifted before their end points are seeded: a
\* faulty order, which property C10 must reject.
MainCentersEarly ==
  <<Call("read_config_file", 0)>>
  \o Calls("read_data", 0, 7)
  \o <<Call("do_consistency_checks", 0)>>
  \o Calls("first_four_columns", 0, 7)
  \o Calls("diagonal_correction", 0, 1)
  \o <<Call("copy_corners", 0)>>
  \o Calls("shift_lines", 2, 7)
  \o <<Call("copy_midpoints", 0),
       Call("return_low_and_high_point", 0),
       Call("column_7", 0),
       Call("scale_foot_spacing", 0),
       Call("column_8", 0),
       Call("do_moody_consistency_checks", 0)>>
  \o Calls("print_table", 0, 7)
  \o <<Call("output_gnuplot", 0)>>

Main ==
  <<Call("read_config_file", 0)>>
  \o Calls("read_data", 0, 7)
  \o <<Call("do_consistency_checks", 0)>>
  \o Calls("first_four_columns", 0, 7)
  \o Calls("diagonal_correction", 0, 1)
  \o <<Call("copy_corners", 0)>>
  \o Calls("shift_lines", 2, 5)
  \o <<Call("copy_midpoints", 0)>>
  \o Calls("shift_lines", 6, 7)
  \o <<Call("return_low_and_high_point", 0),
       Call("column_7", 0),
       Call("scale_foot_spacing", 0),
       Call("column_8", 0),
       Call("do_moody_consistency_checks", 0)>>
  \o Calls("print_table", 0, 7)
  \o <<Call("output_gnuplot", 0)>>

At(op) == exited = "no" /\ pc <= Len(Main) /\ Main[pc].op = op
Arg == Main[pc].arg

Start ==
  /\ ws = <<>>
  /\ num_dat = [i \in Sheets |-> 0]
  /\ metric = -1
  /\ foot_spacing = Zero
  /\ lowest = Zero
  /\ highest = Zero
  /\ pc = 1
  /\ exited = "no"
  /\ stdout = <<>>
  /\ low_high_calls = 0
  /\ clean = TRUE

Init == config \in Configs /\ files \in Datasets /\ Start

InitLines ==
  /\ config = <<"M", 66>>
  /\ \E r \in Profiles : files = [i \in Sheets |-> r]
  /\ Start

InitRead ==
  /\ config = <<"M", 66>>
  /\ \E f \in Sheets, n \in 0..MaxLines, kind \in {"plain", "comments", "bad"} :
       files = [i \in Sheets |-> IF i = f THEN LongFile(n, kind) ELSE DataFile(i, 3, 1)]
  /\ Start

(***************************************************************************)
(* read_config_file                                                        *)
(***************************************************************************)
ReadConfig ==
  /\ At("read_config_file")
  /\ IF config[1] \in {"M", "I"}
       THEN /\ metric' = (IF config[1] = "M" THEN 1 ELSE 0)
            /\ foot_spacing' = FromInt(config[2])
            /\ pc' = pc + 1
            /\ exited' = exited
       ELSE /\ exited' = "failure"
            /\ UNCHANGED <<metric, foot_spacing, pc>>
  /\ UNCHANGED <<config, files, ws, num_dat, lowest, highest, stdout,
                 low_high_calls, clean>>

(***************************************************************************)
(* read_data                                                               *)
(***************************************************************************)
\* One pass of the fgets loop over one line, lines_read readings stored so
\* far: a comment line is skipped, a malformed line or one reading too many
\* leaves the loop (exit(1)), any other reading is stored and counted.
ReadLine(st, line) ==
  IF st.err # "none" \/ line.kind = "skip" THEN st
  ELSE IF line.kind = "bad" THEN [st EXCEPT !.err = "parse"]
  ELSE IF st.lines_read + 1 >= MAX_STATIONS - 2
    THEN [lines_read |-> st.lines_read + 1, err |-> "too_many"]
    ELSE [st EXCEPT !.lines_read = st.lines_read + 1]

\* The fgets loop over lines lo..hi of the file, in file order.
RECURSIVE ReadLoop(_, _, _, _)
ReadLoop(st, file, lo, hi) ==
  IF lo > hi THEN st
  ELSE IF lo = hi THEN ReadLine(st, file[lo])
  ELSE LET half == (lo + hi) \div 2
           first == ReadLoop(st, file, lo, half)
       IN  IF first.err # "none" THEN first ELSE ReadLoop(first, file, half + 1, hi)

IsData(line) == line.kind = "data"

\* sscanf stores the m-th reading in ws[which_file][1][m], m = lines_read+1
StoreReadings(w, which_file, file, stored) ==
  [c \in Col(which_file, 1, 1..stored) |-> FromInt(SelectSeq(file, IsData)[c[3]].val)] @@ w

read_data(w, which_file, file) ==
  LET r == ReadLoop([lines_read |-> 0, err |-> "none"], file, 1, Len(file))
  IN  [w |-> StoreReadings(w, which_file, file, r.lines_read),
       lines_read |-> r.lines_read,
       err |-> IF r.err = "none" /\ r.lines_read < 3 THEN "too_few" ELSE r.err]

ReadData ==
  /\ At("read_data")
  /\ LET r == read_data(ws, Arg, files[Arg])
     IN  /\ ws' = r.w
         /\ IF r.err = "none"
              THEN /\ num_dat' = [num_dat EXCEPT ![Arg] = r.lines_read]
                   /\ pc' = pc + 1
                   /\ exited' = exited
              ELSE /\ exited' = "failure"
                   /\ UNCHANGED <<num_dat, pc>>
  /\ UNCHANGED <<config, files, metric, foot_spacing, lowest, highest, stdout,
                 low_high_calls, clean>>

(***************************************************************************)
(* do_consistency_checks: warnings only.                                   *)
(***************************************************************************)
\* fabs(sqrt(x*x + y*y) - z) > 1.5, decided on the squares
PythagorasOff(x, y, z) ==
  \/ 4 * (x * x + y * y) > (2 * z + 3) * (2 * z + 3)
  \/ 2 * z - 3 > 0 /\ 4 * (x * x + y * y) < (2 * z - 3) * (2 * z - 3)

ThreeLinesOff(i) ==
  \/ num_dat[2 + i] # num_dat[4 + i]
  \/ num_dat[4 + i] # num_dat[6 + i]
  \/ num_dat[2 + i] # num_dat[6 + i]

Warn(cond, tag) == IF cond THEN <<tag>> ELSE <<>>

do_consistency_checks ==
  Warn(num_dat[0] # num_dat[1], "diagonals_differ")
  \o Warn(ThreeLinesOff(0), "three_lines_differ")
  \o Warn(ThreeLinesOff(1), "three_lines_differ")
  \o Warn(PythagorasOff(num_dat[2], num_dat[3], num_dat[0]), "pythagoras")
  \o Warn(PythagorasOff(num_dat[4], num_dat[5], num_dat[1]), "pythagoras")

DoConsistencyChecks ==
  /\ At("do_consistency_checks")
  /\ stdout' = stdout \o do_consistency_checks
  /\ pc' = pc + 1
  /\ UNCHANGED <<config, files, ws, num_dat, metric, foot_spacing, lowest,
                 highest, exited, low_high_calls, clean>>

(***************************************************************************)
(* The cells a call computes from that it has not written itself.          *)
(***************************************************************************)
MidCells(i, c) ==
  IF num_dat[i] % 2 = 0
    THEN {<<i, c, num_dat[i] \div 2>>}
    ELSE {<<i, c, (num_dat[i] - 1) \div 2>>, <<i, c, (num_dat[i] + 1) \div 2>>}

\* Column 6 selected on every sheet, the center lines included: a faulty
\* variant, which property C4 must reject.
HeightColumnSix(i) == 5

\* Moody column 6, or 6a for the center lines
HeightColumn(i) == IF i = 6 \/ i = 7 THEN 8 ELSE 5

(***************************************************************************)
(* first_four_columns                                                      *)
(***************************************************************************)
\* for (j=0; j<=ndat; j++) ws[which_sheet][0][j]=j+1;
LabelLoop(w, which_sheet) ==
  [c \in Col(which_sheet, 0, 0..num_dat[which_sheet]) |-> FromInt(c[3] + 1)] @@ w

\* DiffLoop taking the differences from station 0 instead of station 1: a
\* faulty variant, which property C9 must reject.
DiffLoopFromZero(w, which_sheet) ==
  [c \in Col(which_sheet, 2, 1..num_dat[which_sheet]) |->
     RSub(Cell(w, which_sheet, 1, c[3]), Cell(w, which_sheet, 1, 0))] @@ w

\* for (j=1; j<=ndat; j++) ws[which_sheet][2][j]=
\*    ws[which_sheet][1][j]-ws[which_sheet][1][1];
DiffLoop(w, which_sheet) ==
  [c \in Col(which_sheet, 2, 1..num_dat[which_sheet]) |->
     RSub(Cell(w, which_sheet, 1, c[3]), Cell(w, which_sheet, 1, 1))] @@ w

RECURSIVE SumLoop(_, _, _)
SumLoop(w, which_sheet, j) ==
  IF j > num_dat[which_sheet] THEN w
  ELSE SumLoop(Put(w, which_sheet, 3, j,
                   RAdd(Cell(w, which_sheet, 3, j - 1), Cell(w, which_sheet, 2, j))),
               which_sheet, j + 1)

first_four_columns(w, which_sheet) ==
  LET w1 == LabelLoop(w, which_sheet)
      w2 == DiffLoop(w1, which_sheet)
      w3 == Put(Put(w2, which_sheet, 3, 0, Zero), which_sheet, 3, 1, Zero)
  IN  SumLoop(w3, which_sheet, 2)

Reads_first_four_columns(i) == Col(i, 1, 1..num_dat[i])

FirstFourColumns ==
  /\ At("first_four_columns")
  /\ ws' = first_four_columns(ws, Arg)
  /\ clean' = (clean /\ Written(ws, Reads_first_four_columns(Arg)))
  /\ pc' = pc + 1
  /\ UNCHANGED <<config, files, num_dat, metric, foot_spacing, lowest, highest,
                 exited, stdout, low_high_calls>>

(***************************************************************************)
(* mid_value                                                               *)
(***************************************************************************)
\* mid_value with the two branches exchanged: a faulty variant, which
\* property C7 must reject.
mid_value_swapped(w, which_sheet, which_column) ==
  LET ndat == num_dat[which_sheet]
  IN  IF ndat % 2 # 0
        THEN Cell(w, which_sheet, which_column, ndat \div 2)
        ELSE LET a == Cell(w, which_sheet, which_column, (ndat - 1) \div 2)
                 b == Cell(w, which_sheet, which_column, (ndat + 1) \div 2)
             IN  RHalf(RAdd(a, b))

mid_value(w, which_sheet, which_column) ==
  LET ndat == num_dat[which_sheet]
  IN  IF ndat % 2 = 0
        THEN Cell(w, which_sheet, which_column, ndat \div 2)
        ELSE LET a == Cell(w, which_sheet, which_column, (ndat - 1) \div 2)
                 b == Cell(w, which_sheet, which_column, (ndat + 1) \div 2)
             IN  RHalf(RAdd(a, b))

(***************************************************************************)
(* diagonal_correction                                                     *)
(***************************************************************************)
\* for (j=0;j<=ndat; j++) { column 5: ws[which_sheet][4][j]=a*j+b;
\*   column 6: ws[which_sheet][5][j] = ws[which_sheet][3][j] + ws[which_sheet][4][j]; }
\* Pass j reads no cell that another pass writes.
DiagonalLoop(w, which_sheet, a, b) ==
  LET js == 0..num_dat[which_sheet]
      w1 == [c \in Col(which_sheet, 4, js) |-> RAdd(RMul(a, FromInt(c[3])), b)] @@ w
  IN  [c \in Col(which_sheet, 5, js) |->
         RAdd(Cell(w1, which_sheet, 3, c[3]), Cell(w1, which_sheet, 4, c[3]))] @@ w1

\* The slope taken over ndat-1 intervals: a faulty variant, which property C2
\* must reject.
DiagonalSlopeShort(w, which_sheet) ==
  RDivInt(RNeg(Cell(w, which_sheet, 3, num_dat[which_sheet])), num_dat[which_sheet] - 1)

DiagonalSlope(w, which_sheet) ==
  RDivInt(RNeg(Cell(w, which_sheet, 3, num_dat[which_sheet])), num_dat[which_sheet])

DiagonalIntercept(w, which_sheet) ==
  RSub(RHalf(Cell(w, which_sheet, 3, num_dat[which_sheet])),
       mid_value(w, which_sheet, 3))

diagonal_correction(w, which_sheet) ==
  DiagonalLoop(w, which_sheet, DiagonalSlope(w, which_sheet),
               DiagonalIntercept(w, which_sheet))

Reads_diagonal_correction(i) == Col(i, 3, 0..num_dat[i])

DiagonalCorrection ==
  /\ At("diagonal_correction")
  /\ ws' = diagonal_correction(ws, Arg)
  /\ clean' = (clean /\ Written(ws, Reads_diagonal_correction(Arg)))
  /\ pc' = pc + 1
  /\ UNCHANGED <<config, files, num_dat, metric, foot_spacing, lowest, highest,
                 exited, stdout, low_high_calls>>

(***************************************************************************)
(* main: copy the four corners of the diagonals into the perimeter sheets. *)
(***************************************************************************)
\* ws[..] = ws[..] = v for each cell of the chain
PutAll(w, cells, v) == [x \in cells |-> v] @@ w

\* copy_corners taking the NW corner from the NE-SW diagonal: a faulty
\* variant, which property C8 must reject.
copy_corners_one_diagonal(w) ==
  LET ne == PutAll(w, {<<2, 4, 0>>, <<2, 5, 0>>, <<3, 4, 0>>, <<3, 5, 0>>},
                   Cell(w, 1, 5, 0))
      sw == PutAll(ne, {<<4, 5, num_dat[4]>>, <<5, 5, num_dat[5]>>},
                   Cell(ne, 1, 5, num_dat[1]))
      nw == PutAll(sw, {<<2, 5, num_dat[2]>>, <<5, 4, 0>>, <<5, 5, 0>>},
                   Cell(sw, 1, 5, 0))
  IN  PutAll(nw, {<<3, 5, num_dat[3]>>, <<4, 4, 0>>, <<4, 5, 0>>},
             Cell(nw, 0, 5, num_dat[0]))

copy_corners(w) ==
  LET ne == PutAll(w, {<<2, 4, 0>>, <<2, 5, 0>>, <<3, 4, 0>>, <<3, 5, 0>>},
                   Cell(w, 1, 5, 0))
      sw == PutAll(ne, {<<4, 5, num_dat[4]>>, <<5, 5, num_dat[5]>>},
                   Cell(ne, 1, 5, num_dat[1]))
      nw == PutAll(sw, {<<2, 5, num_dat[2]>>, <<5, 4, 0>>, <<5, 5, 0>>},
                   Cell(sw, 0, 5, 0))
  IN  PutAll(nw, {<<3, 5, num_dat[3]>>, <<4, 4, 0>>, <<4, 5, 0>>},
             Cell(nw, 0, 5, num_dat[0]))

Reads_copy_corners ==
  {<<1, 5, 0>>, <<1, 5, num_dat[1]>>, <<0, 5, 0>>, <<0, 5, num_dat[0]>>}

CopyCorners ==
  /\ At("copy_corners")
  /\ ws' = copy_corners(ws)
  /\ clean' = (clean /\ Written(ws, Reads_copy_corners))
  /\ pc' = pc + 1
  /\ UNCHANGED <<config, files, num_dat, metric, foot_spacing, lowest, highest,
                 exited, stdout, low_high_calls>>

(***************************************************************************)
(* shift_lines                                                             *)
(***************************************************************************)
RECURSIVE ShiftLoop(_, _, _, _)
ShiftLoop(w, i, correction_factor, j) ==
  IF ~(j > 0) THEN w
  ELSE LET w1 == Put(w, i, 4, j, RAdd(Cell(w, i, 4, j + 1), correction_factor))
           w2 == Put(w1, i, 5, j, RAdd(Cell(w1, i, 4, j), Cell(w1, i, 3, j)))
       IN  ShiftLoop(w2, i, correction_factor, j - 1)

\* for (j=0; j<=ndat; j++)
\*    ws[which_sheet][8][j]=ws[which_sheet][5][j]-should_be_zero;
ShiftOutLoop(w, which_sheet, should_be_zero) ==
  [c \in Col(which_sheet, 8, 0..num_dat[which_sheet]) |->
     RSub(Cell(w, which_sheet, 5, c[3]), should_be_zero)] @@ w

\* shift_lines with the loop starting at station ndat: a faulty variant, which
\* property C1 must reject.
shift_lines_from_end(w, which_sheet) ==
  LET i == which_sheet
      ndat == num_dat[i]
      w1 == Put(w, i, 4, ndat, RSub(Cell(w, i, 5, ndat), Cell(w, i, 3, ndat)))
      correction_factor == RDivInt(RSub(Cell(w1, i, 4, 0), Cell(w1, i, 4, ndat)), ndat)
      w2 == ShiftLoop(w1, i, correction_factor, ndat)
  IN  IF which_sheet = 6 \/ which_sheet = 7
        THEN ShiftOutLoop(w2, which_sheet, mid_value(w2, which_sheet, 5))
        ELSE w2

\* shift_lines shifting the center lines out by the single element at
\* station ndat/2: a faulty variant, which property C3 must reject.
shift_lines_one_element(w, which_sheet) ==
  LET i == which_sheet
      ndat == num_dat[i]
      w1 == Put(w, i, 4, ndat, RSub(Cell(w, i, 5, ndat), Cell(w, i, 3, ndat)))
      correction_factor == RDivInt(RSub(Cell(w1, i, 4, 0), Cell(w1, i, 4, ndat)), ndat)
      w2 == ShiftLoop(w1, i, correction_factor, ndat - 1)
  IN  IF which_sheet = 6 \/ which_sheet = 7
        THEN ShiftOutLoop(w2, which_sheet, Cell(w2, which_sheet, 5, ndat \div 2))
        ELSE w2

shift_lines(w, which_sheet) ==
  LET i == which_sheet
      ndat == num_dat[i]
      w1 == Put(w, i, 4, ndat, RSub(Cell(w, i, 5, ndat), Cell(w, i, 3, ndat)))
      correction_factor == RDivInt(RSub(Cell(w1, i, 4, 0), Cell(w1, i, 4, ndat)), ndat)
      w2 == ShiftLoop(w1, i, correction_factor, ndat - 1)
  IN  IF which_sheet = 6 \/ which_sheet = 7
        THEN ShiftOutLoop(w2, which_sheet, mid_value(w2, which_sheet, 5))
        ELSE w2

Reads_shift_lines(i) ==
  {<<i, 5, num_dat[i]>>, <<i, 3, num_dat[i]>>, <<i, 4, 0>>}
  \cup Col(i, 3, 1..(num_dat[i] - 1))
  \cup (IF i = 6 \/ i = 7 THEN {<<i, 5, 0>>} ELSE {})

ShiftLines ==
  /\ At("shift_lines")
  /\ ws' = shift_lines(ws, Arg)
  /\ clean' = (clean /\ Written(ws, Reads_shift_lines(Arg)))
  /\ pc' = pc + 1
  /\ UNCHANGED <<config, files, num_dat, metric, foot_spacing, lowest, highest,
                 exited, stdout, low_high_calls>>

(***************************************************************************)
(* main: copy the perimeter midpoints into the center-line sheets.         *)
(***************************************************************************)
\* A faulty variant, which property C12 must reject: each center line seeded
\* from the perimeter lines at its opposite ends.
copy_midpoints_swapped(w) ==
  LET e == PutAll(w, {<<6, 4, 0>>, <<6, 5, 0>>}, mid_value(w, 5, 5))
      ww == Put(e, 6, 5, num_dat[6], mid_value(e, 3, 5))
      n == PutAll(ww, {<<7, 4, 0>>, <<7, 5, 0>>}, mid_value(ww, 4, 5))
  IN  Put(n, 7, 5, num_dat[7], mid_value(n, 2, 5))

copy_midpoints(w) ==
  LET e == PutAll(w, {<<6, 4, 0>>, <<6, 5, 0>>}, mid_value(w, 3, 5))
      ww == Put(e, 6, 5, num_dat[6], mid_value(e, 5, 5))
      n == PutAll(ww, {<<7, 4, 0>>, <<7, 5, 0>>}, mid_value(ww, 2, 5))
  IN  Put(n, 7, 5, num_dat[7], mid_value(n, 4, 5))

Reads_copy_midpoints ==
  MidCells(3, 5) \cup MidCells(5, 5) \cup MidCells(2, 5) \cup MidCells(4, 5)

CopyMidpoints ==
  /\ At("copy_midpoints")
  /\ ws' = copy_midpoints(ws)
  /\ clean' = (clean /\ Written(ws, Reads_copy_midpoints))
  /\ pc' = pc + 1
  /\ UNCHANGED <<config, files, num_dat, metric, foot_spacing, lowest, highest,
                 exited, stdout, low_high_calls>>

(***************************************************************************)
(* return_low_and_high_point                                               *)
(***************************************************************************)
\* The loop over the rows of sheet i, from row j on: column six, except for
\* center lines column 6a.
RECURSIVE RowLoop(_, _, _, _, _)
RowLoop(w, i, j, min, max) ==
  IF j > num_dat[i] THEN [min |-> min, max |-> max]
  ELSE LET tmp == Cell(w, i, HeightColumn(i), j)
       IN  IF RLess(tmp, min)
             THEN IF RLess(max, tmp)
                    THEN RowLoop(w, i, j + 1, tmp, tmp)
                    ELSE RowLoop(w, i, j + 1, tmp, max)
             ELSE IF RLess(max, tmp)
                    THEN RowLoop(w, i, j + 1, min, tmp)
                    ELSE RowLoop(w, i, j + 1, min, max)

\* The loop over all worksheets, from sheet i on.
RECURSIVE ScanLoop(_, _, _)
ScanLoop(w, i, st) ==
  IF ~(i < 8) THEN st
  ELSE ScanLoop(w, i + 1, RowLoop(w, i, 0, st.min, st.max))

return_low_and_high_point(w) ==
  ScanLoop(w, 0, [min |-> Cell(w, 0, 5, 0), max |-> Cell(w, 0, 5, 0)])

Reads_heights == UNION {Col(i, HeightColumn(i), 0..num_dat[i]) : i \in Sheets}

ReturnLowAndHighPoint ==
  /\ At("return_low_and_high_point")
  /\ LET r == return_low_and_high_point(ws)
     IN  lowest' = r.min /\ highest' = r.max
  /\ low_high_calls' = low_high_calls + 1
  /\ clean' = (clean /\ Written(ws, Reads_heights))
  /\ pc' = pc + 1
  /\ UNCHANGED <<config, files, ws, num_dat, metric, foot_spacing, exited, stdout>>

(***************************************************************************)
(* main: Moody column 7.                                                   *)
(***************************************************************************)
\* for (i=first; i<=last; i++) for (j=0; j<=num_dat[i]; j++)
\*    ws[i][6][j]=ws[i][from][j]-lowest;
Column7Loop(w, first, last, from) ==
  [c \in UNION {Col(i, 6, 0..num_dat[i]) : i \in first..last} |->
     RSub(Cell(w, c[1], from, c[3]), lowest)] @@ w

\* A faulty variant, which property C11 must reject: column 7 of the center
\* lines taken from column 6 instead of column 6a.
column_7_center_col6(w) == Column7Loop(Column7Loop(w, 0, 5, 5), 6, 7, 5)

column_7(w) == Column7Loop(Column7Loop(w, 0, 5, 5), 6, 7, 8)

Column7 ==
  /\ At("column_7")
  /\ ws' = column_7(ws)
  /\ clean' = (clean /\ Written(ws, Reads_heights))
  /\ pc' = pc + 1
  /\ UNCHANGED <<config, files, num_dat, metric, foot_spacing, lowest, highest,
                 exited, stdout, low_high_calls>>

(***************************************************************************)
(* main: convert the foot spacing to the output unit.                      *)
(***************************************************************************)
scale_foot_spacing ==
  IF metric # 0
    THEN RMul(foot_spacing, FromInt(1000))
    ELSE RMul(foot_spacing, FromInt(100000))

ScaleFootSpacing ==
  /\ At("scale_foot_spacing")
  /\ foot_spacing' = scale_foot_spacing
  /\ pc' = pc + 1
  /\ UNCHANGED <<config, files, ws, num_dat, metric, lowest, highest, exited,
                 stdout, low_high_calls, clean>>

(***************************************************************************)
(* One arc second in radians: arcsec = 2.0*3.141592/(360.0*60*60).         *)
(* ArcsecMicro is arcsec * 10^6.  A product x*arcsec is kept as the        *)
(* rational x, in units of arcsec.                                         *)
(***************************************************************************)
ArcsecMicro == Rat(2 * 3141592, 360 * 60 * 60)

\* floor(x * 10^k / b) by long division, from the quotient and remainder of x / b
RECURSIVE LongDiv(_, _, _, _)
LongDiv(quot, rem, b, k) ==
  IF k = 0 THEN quot
  ELSE LongDiv(quot * 10 + ((rem * 10) \div b), (rem * 10) % b, b, k - 1)

\* fabs(x * arcsec) > t for rationals x and t
ExceedsArcsec(x, t) ==
  LET f == RMul(t, <<ArcsecMicro[2], ArcsecMicro[1]>>)   \* t / (arcsec * 10^6)
      a == f[1] * x[2]
  IN  Abs(x[1]) > LongDiv(a \div f[2], a % f[2], f[2], 6)

(***************************************************************************)
(* main: Moody column 8 (held in units of arcsec).                         *)
(***************************************************************************)
\* for (i=0; i<8; i++) for (j=0; j<=num_dat[i]; j++)
\*    ws[i][7][j] = ws[i][6][j]*arcsec*foot_spacing;
Column8Loop(w) ==
  [c \in UNION {Col(i, 7, 0..num_dat[i]) : i \in 0..7} |->
     RMul(Cell(w, c[1], 6, c[3]), foot_spacing)] @@ w

column_8(w) == Column8Loop(w)

Reads_column_8 == UNION {Col(i, 6, 0..num_dat[i]) : i \in Sheets}

Column8 ==
  /\ At("column_8")
  /\ ws' = column_8(ws)
  /\ clean' = (clean /\ Written(ws, Reads_column_8))
  /\ pc' = pc + 1
  /\ UNCHANGED <<config, files, num_dat, metric, foot_spacing, lowest, highest,
                 exited, stdout, low_high_calls>>

(***************************************************************************)
(* do_moody_consistency_checks                                             *)
(***************************************************************************)
\* The error taken from the middle of column 6a: a faulty variant, which
\* property C5 must reject.
moody_error_6a(w, i) == RMul(mid_value(w, i, 8), foot_spacing)

\* error / arcsec for center line i
moody_error(w, i) == RMul(mid_value(w, i, 5), foot_spacing)

moody_tolerance == IF metric # 0 THEN Rat(254, 100) ELSE FromInt(10)

do_moody_consistency_checks(w) ==
  LET printwarning ==
        \E i \in {6, 7} : ExceedsArcsec(moody_error(w, i), moody_tolerance)
  IN  IF printwarning THEN "moody_warning" ELSE "moody_acceptable"

Reads_moody == MidCells(6, 5) \cup MidCells(7, 5)

DoMoodyConsistencyChecks ==
  /\ At("do_moody_consistency_checks")
  /\ stdout' = Append(stdout, do_moody_consistency_checks(ws))
  /\ clean' = (clean /\ Written(ws, Reads_moody))
  /\ pc' = pc + 1
  /\ UNCHANGED <<config, files, ws, num_dat, metric, foot_spacing, lowest,
                 highest, exited, low_high_calls>>

(***************************************************************************)
(* print_table and output_gnuplot: output only.                            *)
(***************************************************************************)
\* print_table prints rows 0..num_dat of every column, row 0 of columns 2
\* and 3 included, which no call writes; it computes nothing from them.
PrintTable ==
  /\ At("print_table")
  /\ stdout' = Append(stdout, "table")
  /\ pc' = pc + 1
  /\ UNCHANGED <<config, files, ws, num_dat, metric, foot_spacing, lowest,
                 highest, exited, low_high_calls, clean>>

\* highest = (highest-lowest)*arcsec*foot_spacing, in units of arcsec; return 0
OutputGnuplot ==
  /\ At("output_gnuplot")
  /\ highest' = RMul(RSub(highest, lowest), foot_spacing)
  /\ pc' = pc + 1
  /\ exited' = "success"
  /\ UNCHANGED <<config, files, ws, num_dat, metric, foot_spacing, lowest,
                 stdout, low_high_calls, clean>>

(***************************************************************************)
(* The program.                                                            *)
(***************************************************************************)
Next ==
  \/ ReadConfig
  \/ ReadData
  \/ DoConsistencyChecks
  \/ FirstFourColumns
  \/ DiagonalCorrection
  \/ CopyCorners
  \/ ShiftLines
  \/ CopyMidpoints
  \/ ReturnLowAndHighPoint
  \/ Column7
  \/ ScaleFootSpacing
  \/ Column8
  \/ DoMoodyConsistencyChecks
  \/ PrintTable
  \/ OutputGnuplot

Spec == Init /\ [][Next]_vars

\* The worksheets up to the center lines, on single-profile input.
NextLines ==
  \/ ReadConfig
  \/ ReadData
  \/ DoConsistencyChecks
  \/ FirstFourColumns
  \/ DiagonalCorrection
  \/ CopyCorners
  \/ ShiftLines
  \/ CopyMidpoints

SpecLines == InitLines /\ [][NextLines]_vars

\* The readers alone, on files of every length up to MaxLines.
NextRead ==
  \/ ReadConfig
  \/ ReadData

SpecRead == InitRead /\ [][NextRead]_vars

(***************************************************************************)
(* Properties.                                                             *)
(***************************************************************************)
\* main has completed the call op(arg)
Done(op, arg) == \E k \in 1..(pc - 1) : Main[k] = Call(op, arg)

\* the stations of every sheet
Stations == UNION {{<<i, j>> : j \in 0..num_dat[i]} : i \in Sheets}

\* the contents of a sequence
Range(seq) == {seq[k] : k \in DOMAIN seq}

(***************************************************************************)
(* C1                                                                      *)
(***************************************************************************)
\* the value main seeds into column 6, station 0 of perimeter or center line i
SeedFirst(w, i) ==
  CASE i = NE_NW -> Cell(w, NE_SW, 5, 0)
    [] i = NE_SE -> Cell(w, NE_SW, 5, 0)
    [] i = SE_SW -> Cell(w, NW_SE, 5, num_dat[NW_SE])
    [] i = NW_SW -> Cell(w, NW_SE, 5, 0)
    [] i = E_W -> mid_value(w, NE_SE, 5)
    [] i = N_S -> mid_value(w, NE_NW, 5)

\* the value main seeds into column 6, station N of perimeter or center line i
SeedLast(w, i) ==
  CASE i = NE_NW -> Cell(w, NW_SE, 5, 0)
    [] i = NE_SE -> Cell(w, NW_SE, 5, num_dat[NW_SE])
    [] i = SE_SW -> Cell(w, NE_SW, 5, num_dat[NE_SW])
    [] i = NW_SW -> Cell(w, NE_SW, 5, num_dat[NE_SW])
    [] i = E_W -> mid_value(w, NW_SW, 5)
    [] i = N_S -> mid_value(w, SE_SW, 5)

ShiftFrame ==
  At("shift_lines") =>
    LET i == Arg
        N == num_dat[i]
    IN  /\ {<<i, 5, 0>>, <<i, 5, N>>} \subseteq DOMAIN ws
        /\ ws'[<<i, 5, 0>>] = ws[<<i, 5, 0>>]
        /\ ws'[<<i, 5, N>>] = ws[<<i, 5, N>>]
        /\ ws'[<<i, 5, 0>>] = SeedFirst(ws', i)
        /\ ws'[<<i, 5, N>>] = SeedLast(ws', i)
        /\ \A x \in DOMAIN ws' :
             x[2] \in {4, 5} /\ (x \notin DOMAIN ws \/ ws'[x] # ws[x])
               => x[1] = i /\ (x[3] \in 1..(N - 1) \/ (x[2] = 4 /\ x[3] = N))

\* C1: every call of shift_lines on a perimeter or center line leaves column
\* 6 at station 0 and at station N exactly as seeded before the call (the
\* corner values of the diagonals, or the middle values of the perimeter
\* lines), and changes columns 5 and 6 of that line only at stations 1..N-1,
\* plus column 5 at station N.
C1_ShiftKeepsSeeds == [][ShiftFrame]_vars

\* all six lines are shifted and a correction factor was not zero
C1_Witness ==
  /\ Done("shift_lines", N_S)
  /\ \E i \in 2..7 : Cell(ws, i, 4, 1) # Cell(ws, i, 4, 2)

(***************************************************************************)
(* C2                                                                      *)
(***************************************************************************)
\* C2: after diagonal_correction of a diagonal, col5[j] = a*j + b with
\* a = -col4[N]/N and b = 0.5*col4[N] - middle(col4), col6[j] = col4[j] +
\* col5[j], and col6[0] and col6[N] lie at the same distance from
\* middle(col6).
C2_DiagonalSymmetric ==
  \A i \in {NW_SE, NE_SW} :
    Done("diagonal_correction", i) =>
      LET N == num_dat[i]
          a == RDivInt(RNeg(Cell(ws, i, 3, N)), N)
          b == RSub(RHalf(Cell(ws, i, 3, N)), mid_value(ws, i, 3))
          m == mid_value(ws, i, 5)
      IN  /\ \A j \in 0..N :
               /\ Cell(ws, i, 4, j) = RAdd(RMul(a, FromInt(j)), b)
               /\ Cell(ws, i, 5, j) = RAdd(Cell(ws, i, 3, j), Cell(ws, i, 4, j))
          /\ RAbs(RSub(Cell(ws, i, 5, 0), m)) = RAbs(RSub(Cell(ws, i, 5, N), m))

\* both diagonals are corrected, with a slope and an end value that are not 0
C2_Witness ==
  /\ Done("diagonal_correction", NE_SW)
  /\ Cell(ws, NW_SE, 3, num_dat[NW_SE]) # Zero
  /\ Cell(ws, NW_SE, 5, 0) # Zero

(***************************************************************************)
(* C3                                                                      *)
(***************************************************************************)
\* C3: after shift_lines of a center line, col6a[j] = col6[j] - middle(col6)
\* at every station j in 0..N and the middle value of col6a is 0.
C3_Middle6aZero ==
  \A i \in {E_W, N_S} :
    Done("shift_lines", i) =>
      /\ \A j \in 0..num_dat[i] :
           Cell(ws, i, 8, j) = RSub(Cell(ws, i, 5, j), mid_value(ws, i, 5))
      /\ mid_value(ws, i, 8) = Zero

\* both center lines are shifted and the middle of col6 of one is not 0
C3_Witness ==
  /\ Done("shift_lines", N_S)
  /\ \E i \in {E_W, N_S} : mid_value(ws, i, 5) # Zero

(***************************************************************************)
(* C4                                                                      *)
(***************************************************************************)
\* col6, or col6a on the center lines, at station x = <<sheet, station>>
Height(x) == Cell(ws, x[1], IF x[1] \in {E_W, N_S} THEN 8 ELSE 5, x[2])

\* the smallest height over every station of every line
GlobalMin ==
  LET heights == {Height(x) : x \in Stations}
  IN  CHOOSE m \in heights : \A h \in heights : ~RLess(h, m)

ScaledSpacing == FromInt(config[2] * (IF config[1] = "M" THEN 1000 ELSE 100000))

\* the tolerance of the check: 2.54 (metric) or 10.0 (imperial)
Tolerance == IF config[1] = "M" THEN Rat(254, 100) ELSE FromInt(10)

\* |middle of column c x arcsec x scaled foot spacing| is over the tolerance
\* on a center line
OverTolerance(c) ==
  \E i \in {E_W, N_S} :
    ExceedsArcsec(RMul(mid_value(ws, i, c), ScaledSpacing), Tolerance)

Readings(file) == Len(SelectSeq(file, IsData))

\* read_data was called on sheet f and ended the run
Aborted(f) == exited = "failure" /\ Main[pc] = Call("read_data", f)

\* C6: a data file in which every line that is neither blank nor a comment
\* is a reading is accepted exactly when it holds 3..MAX_STATIONS-2
\* readings: read_data then stores that count in num_dat, and otherwise
\* ends the run.
C6_AcceptsThreeToMax ==
  \A f \in Sheets :
    Bad \notin Range(files[f]) =>
      LET n == Readings(files[f])
      IN  /\ Done("read_data", f) => n \in 3..(MAX_STATIONS - 2) /\ num_dat[f] = n
          /\ Aborted(f) => n \notin 3..(MAX_STATIONS - 2)

(***************************************************************************)
(* C7                                                                      *)
(***************************************************************************)
\* rows 0..N of column c of sheet i, as a sequence of N+1 rows
ColumnSeq(i, c) == [k \in 1..(num_dat[i] + 1) |-> Cell(ws, i, c, k - 1)]

Reverse(seq) == [k \in 1..Len(seq) |-> seq[Len(seq) + 1 - k]]

\* the middle row of an odd number of rows, the average of the two middle
\* rows of an even number
MiddleOfRows(seq) ==
  IF Len(seq) % 2 = 1
    THEN seq[(Len(seq) + 1) \div 2]
    ELSE RHalf(RAdd(seq[Len(seq) \div 2], seq[Len(seq) \div 2 + 1]))

\* C7: on every sheet and column, mid_value is the element at index N/2
\* when N is even and the average of the elements at indices (N-1)/2 and
\* (N+1)/2 when N is odd; that is the middle row, or the average of the two
\* middle rows, of rows 0..N, and it is the same for the column reversed.
C7_MiddleIsPositional ==
  \A i \in Sheets :
    Done("read_data", i) =>
      \A c \in {1, 3, 5, 8} :
        LET N == num_dat[i]
        IN  /\ N % 2 = 0 => mid_value(ws, i, c) = Cell(ws, i, c, N \div 2)
            /\ N % 2 = 1 =>
                 mid_value(ws, i, c) =
                   RHalf(RAdd(Cell(ws, i, c, (N - 1) \div 2),
                              Cell(ws, i, c, (N + 1) \div 2)))
            /\ mid_value(ws, i, c) = MiddleOfRows(ColumnSeq(i, c))
            /\ mid_value(ws, i, c) = MiddleOfRows(Reverse(ColumnSeq(i, c)))

\* N = 5, the elements of col4 at indices 2 and 3 differ, and the middle
\* value is neither of them
C7_Witness ==
  /\ Done("first_four_columns", NW_SE)
  /\ num_dat[NW_SE] = 5
  /\ mid_value(ws, NW_SE, 3) \notin {Cell(ws, NW_SE, 3, 2), Cell(ws, NW_SE, 3, 3)}

(***************************************************************************)
(* C8                                                                      *)
(***************************************************************************)
\* the three lines that meet at each corner agree there in column c
CornersAgree(c) ==
  /\ Cell(ws, NE_SW, c, 0) = Cell(ws, NE_NW, c, 0)
  /\ Cell(ws, NE_SW, c, 0) = Cell(ws, NE_SE, c, 0)
  /\ Cell(ws, NW_SE, c, 0) = Cell(ws, NE_NW, c, num_dat[NE_NW])
  /\ Cell(ws, NW_SE, c, 0) = Cell(ws, NW_SW, c, 0)
  /\ Cell(ws, NW_SE, c, num_dat[NW_SE]) = Cell(ws, NE_SE, c, num_dat[NE_SE])
  /\ Cell(ws, NW_SE, c, num_dat[NW_SE]) = Cell(ws, SE_SW, c, 0)
  /\ Cell(ws, NE_SW, c, num_dat[NE_SW]) = Cell(ws, SE_SW, c, num_dat[SE_SW])
  /\ Cell(ws, NE_SW, c, num_dat[NE_SW]) = Cell(ws, NW_SW, c, num_dat[NW_SW])

\* C8: the three lines that meet at each plate corner carry the same value
\* there, in col6 once the four perimeter lines are shifted, in col7 once
\* column 7 is filled in, and in col8 once column 8 is filled in.
C8_CornersAgree ==
  /\ Done("shift_lines", NW_SW) => CornersAgree(5)
  /\ Done("column_7", 0) => CornersAgree(6)
  /\ Done("column_8", 0) => CornersAgree(7)

\* the run is over and the corners are at four different heights
C8_Witness ==
  /\ exited = "success"
  /\ Cardinality({Cell(ws, NE_SW, 7, 0), Cell(ws, NW_SE, 7, 0),
                  Cell(ws, NW_SE, 7, num_dat[NW_SE]),
                  Cell(ws, NE_SW, 7, num_dat[NE_SW])}) > 1

(***************************************************************************)
(* C9                                                                      *)
(***************************************************************************)
\* C9: the readings of a line are held in col2 at stations 1..N in file
\* order, the first reading at station 1 and nothing at station 0, and
\* first_four_columns sets col3[j] = col2[j] - col2[1] for j in 1..N.
C9_DifferenceFromStationOne ==
  \A i \in Sheets :
    Done("first_four_columns", i) =>
      /\ <<i, 1, 0>> \notin DOMAIN ws
      /\ \A j \in 1..num_dat[i] :
           /\ Cell(ws, i, 1, j) = FromInt(SelectSeq(files[i], IsData)[j].val)
           /\ Cell(ws, i, 2, j) = RSub(Cell(ws, i, 1, j), Cell(ws, i, 1, 1))

\* C9 as stated: col3[j] = col2[j] - col2[0] for j in 1..N.
C9_DifferenceFromStationZero ==
  \A i \in Sheets :
    Done("first_four_columns", i) =>
      \A j \in 1..num_dat[i] :
        Cell(ws, i, 2, j) = RSub(Cell(ws, i, 1, j), Cell(ws, i, 1, 0))

\* the first four columns of a line are filled in and its first reading is
\* not 0
C9_Witness ==
  /\ Done("first_four_columns", NW_SE)
  /\ Cell(ws, NW_SE, 1, 1) # Zero
  /\ Cell(ws, NW_SE, 2, 2) # Cell(ws, NW_SE, 1, 2)

(***************************************************************************)
(* C10                                                                     *)
(***************************************************************************)
\* some cell of the columns cs of the sheets is is written
Touched(is, cs) == \E x \in DOMAIN ws : x[1] \in is /\ x[2] \in cs

\* column c is written at every station of the sheets is
Complete(is, c) == \A i \in is : num_dat[i] >= 3 /\ Col(i, c, 0..num_dat[i]) \subseteq DOMAIN ws

AllHeights == UNION {Col(i, IF i \in {E_W, N_S} THEN 8 ELSE 5, 0..num_dat[i]) : i \in Sheets}

StagesInOrder ==
  /\ Touched(Sheets, {0, 2, 3, 4, 5, 6, 7, 8}) => \A f \in Sheets : Done("read_data", f)
  /\ Touched(2..5, {4, 5}) => Complete({NW_SE, NE_SW}, 5)
  /\ Touched({E_W, N_S}, {4, 5}) => Complete(2..5, 5)
  /\ low_high_calls <= 1
  /\ low_high_calls = 1 <=> Done("return_low_and_high_point", 0)
  /\ low_high_calls = 1 => Complete(Sheets, 3) /\ AllHeights \subseteq DOMAIN ws
  /\ Touched(Sheets, {6, 7}) => low_high_calls = 1
  /\ exited = "success" => low_high_calls = 1
  /\ clean

HeightsFinal ==
  low_high_calls = 1 => \A x \in AllHeights : ws'[x] = ws[x]

\* C10: every file is read before any column is computed; both diagonals
\* are complete before a perimeter end point is seeded; the four perimeter
\* lines are complete before a center-line end point is seeded; the lowest
\* and highest point are computed once, when col6 (col6a on the center
\* lines) is written at every station, before any col7 or col8 cell is
\* written, and col6 and col6a do not change afterwards; and no call
\* computes from a cell that has not been written.
C10_StagesInOrder == [](StagesInOrder) /\ [][HeightsFinal]_vars

\* the run is over, with the lowest and highest point apart
C10_Witness ==
  /\ exited = "success"
  /\ low_high_calls = 1
  /\ Touched(Sheets, {7})
  /\ RLess(Zero, highest)

(***************************************************************************)
(* C11                                                                     *)
(***************************************************************************)
\* the lines through the plate center
CenterLines == {NW_SE, NE_SW, E_W, N_S}

\* C11: once column 7 is filled in, the middle value of col7 is the same on
\* both diagonals and both center lines and equals minus the global
\* minimum, the middle value of col6 being 0 on each diagonal and the middle
\* value of col6a being 0 on each center line.
C11_CenterSingleHeight ==
  Done("column_7", 0) =>
    LET global_min == GlobalMin
    IN  /\ \A i \in CenterLines : mid_value(ws, i, 6) = RNeg(global_min)
        /\ \A i \in {NW_SE, NE_SW} : mid_value(ws, i, 5) = Zero
        /\ \A i \in {E_W, N_S} : mid_value(ws, i, 8) = Zero

\* the run is over, the center is above the lowest point, the lines through
\* the center have even and odd station counts, and the middle of col6 of a
\* center line is not 0
C11_Witness ==
  /\ exited = "success"
  /\ Done("column_7", 0)
  /\ RLess(Zero, mid_value(ws, NW_SE, 6))
  /\ \E i, k \in CenterLines : num_dat[i] % 2 = 0 /\ num_dat[k] % 2 = 1
  /\ \E i \in {E_W, N_S} : mid_value(ws, i, 5) # Zero

(***************************************************************************)
(* C12                                                                     *)
(***************************************************************************)
\* The ends of the center lines: <<center line, station, perimeter line>>.
CenterEnds ==
  {<<E_W, 0, NE_SE>>, <<E_W, num_dat[E_W], NW_SW>>,
   <<N_S, 0, NE_NW>>, <<N_S, num_dat[N_S], SE_SW>>}

\* C12 as stated: once column 7 is filled in, col7 at each end of a center
\* line equals the middle value of col7 of the perimeter line it ends on.
C12_EndsMeetPerimeter ==
  Done("column_7", 0) =>
    \A e \in CenterEnds : Cell(ws, e[1], 6, e[2]) = mid_value(ws, e[3], 6)

\* C12, amended: once the center lines are shifted, col6 at each end of a
\* center line equals the middle value of col6 of the perimeter line it ends
\* on; once column 7 is filled in, col7 at each end of a center line equals
\* the middle value of col7 of that perimeter line minus the middle value of
\* col6 of the center line, so the two agree exactly when that middle value
\* is 0.
C12_EndsOffByCenterError ==
  /\ Done("shift_lines", N_S) =>
       \A e \in CenterEnds : Cell(ws, e[1], 5, e[2]) = mid_value(ws, e[3], 5)
  /\ Done("column_7", 0) =>
       \A e \in CenterEnds :
         /\ Cell(ws, e[1], 6, e[2]) =
              RSub(mid_value(ws, e[3], 6), mid_value(ws, e[1], 5))
         /\ (Cell(ws, e[1], 6, e[2]) = mid_value(ws, e[3], 6))
              <=> (mid_value(ws, e[1], 5) = Zero)

\* the run is over, the middle of col6 is 0 on one center line and not on
\* the other, and the four perimeter middles are not all equal
C12_Witness ==
  /\ exited = "success"
  /\ Done("column_7", 0)
  /\ \E i, k \in {E_W, N_S} :
       mid_value(ws, i, 5) # Zero /\ mid_value(ws, k, 5) = Zero
  /\ \E e, f \in CenterEnds : mid_value(ws, e[3], 6) # mid_value(ws, f[3], 6)

====
